---- MODULE Spec2Model ----
(***************************************************************************)
(* Model of the process-descriptor builder of package chart: newProcess    *)
(* applies an ordered list of processOption overlays to a fresh process,   *)
(* appends the port environment variables and enforces that a routable     *)
(* process has ports.                                                      *)
(*                                                                         *)
(* Go values are represented as follows.  A string is a TLA+ string.  A    *)
(* nil pointer or nil error is Nil; a probe is the string that names it.   *)
(* A slice is a sequence (nil and empty slices are both << >>; the code    *)
(* only takes len() and ranges over them).  A map[string]string is a       *)
(* function whose domain is the set of keys present (a nil map is the      *)
(* empty function: the code creates the map right before its first         *)
(* write).  An optional value (a pointer to int or to process) is a         *)
(* sequence of length 0 or 1.                                              *)
(***************************************************************************)
EXTENDS Integers, Sequences, FiniteSets, TLC

VARIABLES
    name,        \* argument name of newProcess
    isRoutable,  \* argument isRoutable of newProcess
    opts,        \* argument opts of newProcess: the overlay list
    process,     \* the local *process of newProcess
    idx,         \* position of the range loop over opts (next overlay)
    pc,          \* "loop" while newProcess runs, "done" once it returned
    ret,         \* the returned pair: pointer to process, error
    ran,         \* observation: indices of the overlays called so far, in call order
    probeCalls,  \* observation: number of calls of portConfigurator.Probes
    derived,     \* observation: the results of the calls of portEnvVariables
    portChecks   \* observation: number of calls of hasOpenPort

vars == <<name, isRoutable, opts, process, idx, pc, ret, ran, probeCalls, derived, portChecks>>

\* Longest overlay list passed to newProcess.
MaxOpts == 3

Nil == "nil"

DefaultNumberOfUnits == 1

ErrPortsNotFound == "routable process should have at least one container port and one service port"

EmptyMap == [k \in {} |-> ""]

EmptyMetadata == [Labels |-> EmptyMap, Annotations |-> EmptyMap]

-----------------------------------------------------------------------------
(* Inputs.                                                                 *)

Names == {"web", "worker"}

Env(n, v) == [Name |-> n, Value |-> v]

\* Explicit environment lists handed to withEnvs; the second one uses the
\* names the port derivation also produces.
EnvLists ==
    { <<Env("FOO", "bar")>>,
      <<Env("PORT", "1"), Env("PORT_web", "x"), Env("port", "2"), Env("PORT_worker", "y")>> }

Probes(liveness, readiness, startup) ==
    [Liveness |-> liveness, Readiness |-> readiness, StartupProbe |-> startup]

NoProbes == Probes(Nil, Nil, Nil)

\* A portConfigurator: the ports it returns per process name and the result
\* of Probes().
Configurator(cWeb, sWeb, cWorker, sWorker, probes, err) ==
    [ContainerPorts |-> [n \in Names |-> IF n = "web" THEN cWeb ELSE cWorker],
     ServicePorts   |-> [n \in Names |-> IF n = "web" THEN sWeb ELSE sWorker],
     Probes         |-> [probes |-> probes, err |-> err]]

ErrProbes == "invalid probe configuration"

Configurators ==
    { Configurator(<<80, 443>>, <<443, 80>>, << >>, << >>, Probes("liveA", "readyA", Nil), Nil),
      Configurator(<<80>>, <<8080>>, <<9000>>, << >>, NoProbes, ErrProbes),
      Configurator(<< >>, <<80>>, <<0, 7, 65535>>, <<9000, 1>>, Probes("liveC", "readyC", "startC"), Nil),
      Configurator(<<8080>>, <<80>>, <<443>>, <<0>>, NoProbes, Nil) }

Item(target, processName, deploymentVersion, apply) ==
    [Target |-> target, ProcessName |-> processName,
     DeploymentVersion |-> deploymentVersion, Apply |-> apply]

\* The lists of MetadataItems handed to withLabels and withAnnotations.  All
\* items of ItemsTier are valid; ItemsScoped holds an item with an empty
\* apply map and one with a malformed key.
ItemsTier ==
    << Item("Deployment", "", 0, "tier" :> "a"),
       Item("Deployment", "", 0, ("tier" :> "b") @@ ("team" :> "x")),
       Item("Service", "worker", 0, "tier" :> "c"),
       Item("Pod", "web", 1, "zone" :> "z") >>

ItemsScoped ==
    << Item("Pod", "", 2, "tier" :> "d"),
       Item("Deployment", "", 0, "team" :> "y"),
       Item("Pod", "web", 2, EmptyMap),
       Item("Service", "worker", 1, "bad key" :> "v"),
       Item("Service", "", 0, "zone" :> "q") >>

MetadataArgs == { <<ItemsTier, 1>>, <<ItemsScoped, 1>>, <<ItemsScoped, 2>> }

\* The overlays a caller can put in the list, each with the configuration
\* its closure captured.
Options ==
    { [kind |-> "withUnits", units |-> u] : u \in {<< >>, <<3>>} }
    \cup { [kind |-> "withCmd", cmd |-> <<"run", "server">>] }
    \cup { [kind |-> "withEnvs", envs |-> e] : e \in EnvLists }
    \cup { [kind |-> "withPortsAndProbes", c |-> c] : c \in Configurators }
    \cup { [kind |-> "withLabels", items |-> a[1], deploymentVersion |-> a[2]] : a \in MetadataArgs }
    \cup { [kind |-> "withAnnotations", items |-> a[1], deploymentVersion |-> a[2]] : a \in MetadataArgs }

OptLists == UNION { [1..n -> Options] : n \in 0..MaxOpts }

-----------------------------------------------------------------------------
(* The overlays.  Each takes the process and returns the mutated process   *)
(* and the error of the closure.                                           *)

Result(p, err) == [p |-> p, err |-> err]

withUnits(p, units) ==
    IF units # << >> THEN Result([p EXCEPT !.Units = units[1]], Nil)
    ELSE Result(p, Nil)

withEnvs(p, envs) == Result([p EXCEPT !.Env = envs], Nil)

withCmd(p, cmd) == Result([p EXCEPT !.Cmd = cmd], Nil)

\* Variant of withPortsAndProbes that drops the error of c.Probes().
withPortsAndProbesIgnoringError(p, c) ==
    LET p1 == [p EXCEPT !.ServicePorts = c.ServicePorts[p.Name],
                        !.ContainerPorts = c.ContainerPorts[p.Name]]
    IN  IF Len(p1.ContainerPorts) = 0 \/ Len(p1.ServicePorts) = 0
        THEN [p |-> p1, err |-> Nil, probed |-> FALSE]
        ELSE IF c.Probes.err # Nil
        THEN [p |-> p1, err |-> Nil, probed |-> TRUE]
        ELSE [p |-> [p1 EXCEPT !.PublicServicePort = p1.ServicePorts[1],
                               !.LivenessProbe = c.Probes.probes.Liveness,
                               !.ReadinessProbe = c.Probes.probes.Readiness,
                               !.StartupProbe = c.Probes.probes.StartupProbe],
              err |-> Nil, probed |-> TRUE]

\* Variant of withPortsAndProbes that takes the public port from the
\* container ports.
withPortsAndProbesContainerPort(p, c) ==
    LET p1 == [p EXCEPT !.ServicePorts = c.ServicePorts[p.Name],
                        !.ContainerPorts = c.ContainerPorts[p.Name]]
    IN  IF Len(p1.ContainerPorts) = 0 \/ Len(p1.ServicePorts) = 0
        THEN [p |-> p1, err |-> Nil, probed |-> FALSE]
        ELSE IF c.Probes.err # Nil
        THEN [p |-> p1, err |-> c.Probes.err, probed |-> TRUE]
        ELSE [p |-> [p1 EXCEPT !.PublicServicePort = p1.ContainerPorts[1],
                               !.LivenessProbe = c.Probes.probes.Liveness,
                               !.ReadinessProbe = c.Probes.probes.Readiness,
                               !.StartupProbe = c.Probes.probes.StartupProbe],
              err |-> Nil, probed |-> TRUE]

\* c.ServicePortsForProcess, c.ContainerPortsForProcess and c.Probes are the
\* fields of the configurator; probed tells whether c.Probes() was called.
withPortsAndProbes(p, c) ==
    LET p1 == [p EXCEPT !.ServicePorts = c.ServicePorts[p.Name],
                        !.ContainerPorts = c.ContainerPorts[p.Name]]
    IN  IF Len(p1.ContainerPorts) = 0 \/ Len(p1.ServicePorts) = 0
        THEN [p |-> p1, err |-> Nil, probed |-> FALSE]
        ELSE IF c.Probes.err # Nil
        THEN [p |-> p1, err |-> c.Probes.err, probed |-> TRUE]
        ELSE [p |-> [p1 EXCEPT !.PublicServicePort = p1.ServicePorts[1],
                               !.LivenessProbe = c.Probes.probes.Liveness,
                               !.ReadinessProbe = c.Probes.probes.Readiness,
                               !.StartupProbe = c.Probes.probes.StartupProbe],
              err |-> Nil, probed |-> TRUE]

-----------------------------------------------------------------------------
(* Metadata items.                                                         *)

ErrEmptyApply == "metadata item: apply is empty"

ErrInvalidKey == "metadata item: invalid key"

ValidKeys == {"tier", "team", "zone"}

\* MetadataItem.Validate: nil for an item whose content is valid.
Validate(item) ==
    IF DOMAIN item.Apply = {} THEN ErrEmptyApply
    ELSE IF ~(DOMAIN item.Apply \subseteq ValidKeys) THEN ErrInvalidKey
    ELSE Nil

IsDeployment(target) == target = "Deployment"

IsService(target) == target = "Service"

IsPod(target) == target = "Pod"

\* Variant of canBeApplied without the process-name filter.
canBeAppliedAnyProcess(item, processName, version) ==
    IF item.DeploymentVersion > 0 /\ version # item.DeploymentVersion THEN FALSE
    ELSE TRUE

canBeApplied(item, processName, version) ==
    IF item.DeploymentVersion > 0 /\ version # item.DeploymentVersion THEN FALSE
    ELSE IF item.ProcessName # "" /\ processName # item.ProcessName THEN FALSE
    ELSE TRUE

\* Variant of setKeys that keeps the value of a key already present.
setKeysKeepExisting(m, apply) ==
    [k \in DOMAIN m \cup DOMAIN apply |-> IF k \in DOMAIN m THEN m[k] ELSE apply[k]]

\* m[k] = v for every k, v of apply (keys of one map are distinct, so the
\* order of the range does not matter).
setKeys(m, apply) ==
    [k \in DOMAIN m \cup DOMAIN apply |-> IF k \in DOMAIN apply THEN apply[k] ELSE m[k]]

\* The body of withLabels' loop over label.Apply.
setLabels(p, label) ==
    IF IsDeployment(label.Target)
    THEN [p EXCEPT !.DeploymentMetadata.Labels = setKeys(@, label.Apply)]
    ELSE IF IsService(label.Target)
    THEN [p EXCEPT !.ServiceMetadata.Labels = setKeys(@, label.Apply)]
    ELSE IF IsPod(label.Target)
    THEN [p EXCEPT !.PodMetadata.Labels = setKeys(@, label.Apply)]
    ELSE p

\* The body of withAnnotations' loop over annotation.Apply.
setAnnotations(p, annotation) ==
    IF IsDeployment(annotation.Target)
    THEN [p EXCEPT !.DeploymentMetadata.Annotations = setKeys(@, annotation.Apply)]
    ELSE IF IsService(annotation.Target)
    THEN [p EXCEPT !.ServiceMetadata.Annotations = setKeys(@, annotation.Apply)]
    ELSE IF IsPod(annotation.Target)
    THEN [p EXCEPT !.PodMetadata.Annotations = setKeys(@, annotation.Apply)]
    ELSE p

\* withLabels' range loop from its i-th label on.
RECURSIVE rangeLabels(_, _, _, _)
rangeLabels(p, labels, deploymentVersion, i) ==
    IF i > Len(labels) THEN Result(p, Nil)
    ELSE IF ~canBeApplied(labels[i], p.Name, deploymentVersion)
    THEN rangeLabels(p, labels, deploymentVersion, i + 1)
    ELSE IF Validate(labels[i]) # Nil
    THEN Result(p, Validate(labels[i]))
    ELSE rangeLabels(setLabels(p, labels[i]), labels, deploymentVersion, i + 1)

\* Variant of withLabels that validates a label before it filters it.
RECURSIVE rangeLabelsValidateFirst(_, _, _, _)
rangeLabelsValidateFirst(p, labels, deploymentVersion, i) ==
    IF i > Len(labels) THEN Result(p, Nil)
    ELSE IF Validate(labels[i]) # Nil
    THEN Result(p, Validate(labels[i]))
    ELSE IF ~canBeApplied(labels[i], p.Name, deploymentVersion)
    THEN rangeLabelsValidateFirst(p, labels, deploymentVersion, i + 1)
    ELSE rangeLabelsValidateFirst(setLabels(p, labels[i]), labels, deploymentVersion, i + 1)

withLabelsValidateFirst(p, labels, deploymentVersion) ==
    rangeLabelsValidateFirst(p, labels, deploymentVersion, 1)

withLabels(p, labels, deploymentVersion) == rangeLabels(p, labels, deploymentVersion, 1)

\* withAnnotations' range loop from its i-th annotation on.
RECURSIVE rangeAnnotations(_, _, _, _)
rangeAnnotations(p, annotations, deploymentVersion, i) ==
    IF i > Len(annotations) THEN Result(p, Nil)
    ELSE IF ~canBeApplied(annotations[i], p.Name, deploymentVersion)
    THEN rangeAnnotations(p, annotations, deploymentVersion, i + 1)
    ELSE IF Validate(annotations[i]) # Nil
    THEN Result(p, Validate(annotations[i]))
    ELSE rangeAnnotations(setAnnotations(p, annotations[i]), annotations, deploymentVersion, i + 1)

withAnnotations(p, annotations, deploymentVersion) ==
    rangeAnnotations(p, annotations, deploymentVersion, 1)

-----------------------------------------------------------------------------
(* newProcess.                                                             *)

\* Variant of hasOpenPort content with either kind of port.
hasOpenPortEither(p) == Len(p.ContainerPorts) > 0 \/ Len(p.ServicePorts) > 0

hasOpenPort(p) == Len(p.ContainerPorts) > 0 /\ Len(p.ServicePorts) > 0

Digits == <<"0", "1", "2", "3", "4", "5", "6", "7", "8", "9">>

\* fmt.Sprintf("%d", n)
RECURSIVE FormatInt(_)
FormatInt(n) ==
    IF n < 0 THEN "-" \o FormatInt(-n)
    ELSE IF n < 10 THEN Digits[n + 1]
    ELSE FormatInt(n \div 10) \o Digits[(n % 10) + 1]

\* strings.Join(elems, sep)
RECURSIVE Join(_, _)
Join(elems, sep) ==
    IF Len(elems) = 0 THEN ""
    ELSE IF Len(elems) = 1 THEN elems[1]
    ELSE elems[1] \o sep \o Join(Tail(elems), sep)

\* Variant of portEnvVariables that emits port and PORT for any number of ports.
portEnvVariablesAnyCount(p) ==
    IF Len(p.ContainerPorts) = 0 THEN << >>
    ELSE LET single == << Env("port", FormatInt(p.ContainerPorts[1])),
                          Env("PORT", FormatInt(p.ContainerPorts[1])) >>
             ports  == [i \in 1..Len(p.ContainerPorts) |-> FormatInt(p.ContainerPorts[i])]
         IN  single \o << Env("PORT_" \o p.Name, Join(ports, ",")) >>

portEnvVariables(p) ==
    IF Len(p.ContainerPorts) = 0 THEN << >>
    ELSE LET single == IF Len(p.ContainerPorts) = 1
                       THEN << Env("port", FormatInt(p.ContainerPorts[1])),
                               Env("PORT", FormatInt(p.ContainerPorts[1])) >>
                       ELSE << >>
             ports  == [i \in 1..Len(p.ContainerPorts) |-> FormatInt(p.ContainerPorts[i])]
         IN  single \o << Env("PORT_" \o p.Name, Join(ports, ",")) >>

\* The process newProcess starts from.
newProcessValue(n, routable) ==
    [Name |-> n, Cmd |-> << >>, Units |-> DefaultNumberOfUnits, Routable |-> routable,
     ContainerPorts |-> << >>, ServicePorts |-> << >>, PublicServicePort |-> 0,
     Env |-> << >>,
     ReadinessProbe |-> Nil, LivenessProbe |-> Nil, StartupProbe |-> Nil,
     ServiceMetadata |-> EmptyMetadata, DeploymentMetadata |-> EmptyMetadata,
     PodMetadata |-> EmptyMetadata]

\* Variant of appendPortEnv that puts the port variables first.
appendPortEnvFirst(p) == [p EXCEPT !.Env = portEnvVariables(p) \o @]

\* process.Env = append(process.Env, process.portEnvVariables()...)
appendPortEnv(p) == [p EXCEPT !.Env = @ \o portEnvVariables(p)]

\* return nil, err in the loop over opts
returnError(p, err) == [process |-> << >>, err |-> err]

\* Variant of returnProcess that checks the ports of every process.
returnProcessAlwaysChecked(p) ==
    IF ~hasOpenPort(p) THEN [process |-> << >>, err |-> ErrPortsNotFound]
    ELSE [process |-> <<p>>, err |-> Nil]

\* The statements of newProcess after the loop: what it returns for the
\* process p whose Env already holds the port variables.
returnProcess(p) ==
    IF ~p.Routable THEN [process |-> <<p>>, err |-> Nil]
    ELSE IF ~hasOpenPort(p) THEN [process |-> << >>, err |-> ErrPortsNotFound]
    ELSE [process |-> <<p>>, err |-> Nil]

NoReturn == [process |-> << >>, err |-> Nil]

Init ==
    /\ name \in Names
    /\ isRoutable \in BOOLEAN
    /\ opts \in OptLists
    /\ process = newProcessValue(name, isRoutable)
    /\ idx = 1
    /\ pc = "loop"
    /\ ret = NoReturn
    /\ ran = << >>
    /\ probeCalls = 0
    /\ derived = << >>
    /\ portChecks = 0

\* Variant of Iterate that goes on to the next overlay after an error.
IterateIgnoringError(r) ==
    /\ process' = r.p
    /\ ran' = Append(ran, idx)
    /\ idx' = idx + 1
    /\ UNCHANGED <<ret, pc>>
    /\ UNCHANGED <<name, isRoutable, opts, derived, portChecks>>

\* One iteration of the loop over opts whose overlay returned r.
Iterate(r) ==
    /\ process' = r.p
    /\ ran' = Append(ran, idx)
    /\ IF r.err # Nil
       THEN /\ ret' = returnError(r.p, r.err)
            /\ pc' = "done"
            /\ idx' = idx
       ELSE /\ idx' = idx + 1
            /\ UNCHANGED <<ret, pc>>
    /\ UNCHANGED <<name, isRoutable, opts, derived, portChecks>>

Calls(kind) == pc = "loop" /\ idx <= Len(opts) /\ opts[idx].kind = kind

WithUnits ==
    /\ Calls("withUnits")
    /\ Iterate(withUnits(process, opts[idx].units))
    /\ UNCHANGED probeCalls

WithEnvs ==
    /\ Calls("withEnvs")
    /\ Iterate(withEnvs(process, opts[idx].envs))
    /\ UNCHANGED probeCalls

WithCmd ==
    /\ Calls("withCmd")
    /\ Iterate(withCmd(process, opts[idx].cmd))
    /\ UNCHANGED probeCalls

WithPortsAndProbes ==
    /\ Calls("withPortsAndProbes")
    /\ LET r == withPortsAndProbes(process, opts[idx].c)
       IN  /\ Iterate(r)
           /\ probeCalls' = IF r.probed THEN probeCalls + 1 ELSE probeCalls

WithLabels ==
    /\ Calls("withLabels")
    /\ Iterate(withLabels(process, opts[idx].items, opts[idx].deploymentVersion))
    /\ UNCHANGED probeCalls

WithAnnotations ==
    /\ Calls("withAnnotations")
    /\ Iterate(withAnnotations(process, opts[idx].items, opts[idx].deploymentVersion))
    /\ UNCHANGED probeCalls

\* The loop is over: derive the port variables, check the ports, return.
Return ==
    /\ pc = "loop" /\ idx > Len(opts)
    /\ process' = appendPortEnv(process)
    /\ derived' = Append(derived, portEnvVariables(process))
    /\ portChecks' = IF process.Routable THEN portChecks + 1 ELSE portChecks
    /\ ret' = returnProcess(process')
    /\ pc' = "done"
    /\ UNCHANGED <<name, isRoutable, opts, idx, ran, probeCalls>>

Next ==
    \/ WithUnits
    \/ WithEnvs
    \/ WithCmd
    \/ WithPortsAndProbes
    \/ WithLabels
    \/ WithAnnotations
    \/ Return

Spec == Init /\ [][Next]_vars

-----------------------------------------------------------------------------
(* What the inputs of a call determine, stated from the inputs alone.      *)

Max(S) == CHOOSE x \in S : \A y \in S : y <= x

Min(S) == CHOOSE x \in S : \A y \in S : x <= y

Prefix(n) == [i \in 1..n |-> i]

\* The item passes the scoping filter of a build of process n at version v.
Applies(item, n, v) ==
    /\ item.DeploymentVersion = 0 \/ item.DeploymentVersion = v
    /\ item.ProcessName = "" \/ item.ProcessName = n

IsMetadataOverlay(o) == o.kind \in {"withLabels", "withAnnotations"}

\* Positions of the items of a metadata overlay that apply and are invalid.
ApplicableInvalid(o, n) ==
    { i \in 1..Len(o.items) :
        Applies(o.items[i], n, o.deploymentVersion) /\ Validate(o.items[i]) # Nil }

\* The overlay returns an error when run for process n.
OverlayFails(o, n) ==
    IF o.kind = "withPortsAndProbes"
    THEN o.c.ContainerPorts[n] # << >> /\ o.c.ServicePorts[n] # << >> /\ o.c.Probes.err # Nil
    ELSE IF IsMetadataOverlay(o) THEN ApplicableInvalid(o, n) # {}
    ELSE FALSE

OverlayError(o, n) ==
    IF o.kind = "withPortsAndProbes" THEN o.c.Probes.err
    ELSE Validate(o.items[Min(ApplicableInvalid(o, n))])

\* Position of the first overlay of the list that fails, 0 when none does.
FirstFailure(os, n) ==
    LET F == { i \in 1..Len(os) : OverlayFails(os[i], n) }
    IN  IF F = {} THEN 0 ELSE Min(F)

\* Position of the last overlay of the given kind, 0 when there is none.
LastOf(os, kind) ==
    LET S == { i \in 1..Len(os) : os[i].kind = kind }
    IN  IF S = {} THEN 0 ELSE Max(S)

\* The environment list of the last withEnvs overlay.
ExplicitEnv(os) ==
    IF LastOf(os, "withEnvs") = 0 THEN << >> ELSE os[LastOf(os, "withEnvs")].envs

\* The port lists of the last port-wiring overlay.
WiredContainerPorts(os, n) ==
    IF LastOf(os, "withPortsAndProbes") = 0 THEN << >>
    ELSE os[LastOf(os, "withPortsAndProbes")].c.ContainerPorts[n]

WiredServicePorts(os, n) ==
    IF LastOf(os, "withPortsAndProbes") = 0 THEN << >>
    ELSE os[LastOf(os, "withPortsAndProbes")].c.ServicePorts[n]

\* Decimal numerals of the container ports in use, written out.
Decimal ==
    (0 :> "0") @@ (7 :> "7") @@ (80 :> "80") @@ (443 :> "443") @@ (8080 :> "8080")
    @@ (9000 :> "9000") @@ (65535 :> "65535")

PortVariable == ("web" :> "PORT_web") @@ ("worker" :> "PORT_worker")

RECURSIVE CommaList(_)
CommaList(ports) ==
    IF Len(ports) = 1 THEN Decimal[ports[1]]
    ELSE CommaList(SubSeq(ports, 1, Len(ports) - 1)) \o "," \o Decimal[ports[Len(ports)]]

\* The derived entries the specification prescribes for a name and a port list.
ExpectedPortEnv(n, ports) ==
    IF Len(ports) = 0 THEN << >>
    ELSE IF Len(ports) = 1
    THEN << [Name |-> "port", Value |-> Decimal[ports[1]]],
            [Name |-> "PORT", Value |-> Decimal[ports[1]]],
            [Name |-> PortVariable[n], Value |-> Decimal[ports[1]]] >>
    ELSE << [Name |-> PortVariable[n], Value |-> CommaList(ports)] >>

Returned == pc = "done" /\ ret.process # << >>

-----------------------------------------------------------------------------
(* C1: a routable build whose container-port or service-port list is empty *)
(* after all overlays have run fails with ErrPortsNotFound and returns no  *)
(* descriptor; every descriptor returned with routable=true has non-empty  *)
(* container-port and service-port lists.                                  *)
C1_RoutableNeedsPorts ==
    /\ ( /\ pc = "done" /\ isRoutable /\ FirstFailure(opts, name) = 0
         /\ (WiredContainerPorts(opts, name) = << >> \/ WiredServicePorts(opts, name) = << >>) )
       => ret = [process |-> << >>, err |-> ErrPortsNotFound]
    /\ (Returned /\ isRoutable)
       => /\ ret.err = Nil
          /\ Len(ret.process[1].ContainerPorts) > 0
          /\ Len(ret.process[1].ServicePorts) > 0

\* A routable build that ran all its overlays and ended with container ports
\* but no service port.
C1_Witness ==
    /\ pc = "done" /\ isRoutable /\ Len(ran) = Len(opts) /\ Len(opts) > 0
    /\ Len(process.ContainerPorts) > 0 /\ Len(process.ServicePorts) = 0
    /\ ret.err = ErrPortsNotFound

(* C2, as claimed: every build with routable=false succeeds, returning a   *)
(* descriptor and no error, whatever port lists the Port Source returns.   *)
C2_NonRoutableAlwaysSucceeds ==
    (pc = "done" /\ ~isRoutable) => (ret.process # << >> /\ ret.err = Nil)

(* C2, amended: a build with routable=false never runs the port check and  *)
(* never fails with ErrPortsNotFound; it succeeds exactly when no overlay  *)
(* fails, whatever (empty or non-empty) port lists the Port Source         *)
(* returned, and the descriptor carries those lists.                       *)
C2_NonRoutableSkipsPortCheck ==
    (pc = "done" /\ ~isRoutable)
    => /\ portChecks = 0
       /\ ret.err # ErrPortsNotFound
       /\ (ret.process # << >>) <=> (FirstFailure(opts, name) = 0)
       /\ (ret.process # << >>) <=> (ret.err = Nil)
       /\ ret.process # << >>
          => /\ ret.process[1].ContainerPorts = WiredContainerPorts(opts, name)
             /\ ret.process[1].ServicePorts = WiredServicePorts(opts, name)

\* A non-routable build returned with container ports and no service port.
C2_Witness ==
    /\ Returned /\ ~isRoutable
    /\ Len(ret.process[1].ContainerPorts) > 0 /\ Len(ret.process[1].ServicePorts) = 0

(* C3: the entries portEnvVariables derives depend on the name and the     *)
(* container-port list only: none for no port; port=p, PORT=p,             *)
(* PORT_<name>=p in this order for one port p; for two or more ports only  *)
(* PORT_<name> with the decimal numbers joined by commas in list order.    *)
C3_PortEnvVariables ==
    /\ Len(derived) <= 1
    /\ derived # << >>
       => /\ derived[1] = ExpectedPortEnv(name, process.ContainerPorts)
          /\ (name = "web" /\ process.ContainerPorts = <<80, 443>>)
             => derived[1] = << [Name |-> "PORT_web", Value |-> "80,443"] >>
          /\ (name = "worker" /\ process.ContainerPorts = <<443>>)
             => derived[1] = << [Name |-> "port", Value |-> "443"],
                                [Name |-> "PORT", Value |-> "443"],
                                [Name |-> "PORT_worker", Value |-> "443"] >>

\* The derivation ran for the container ports 80 and 443 of process web.
C3_Witness ==
    /\ pc = "done" /\ name = "web" /\ process.ContainerPorts = <<80, 443>>
    /\ derived = << << [Name |-> "PORT_web", Value |-> "80,443"] >> >>

(* C4: the environment of a returned descriptor is the entries of the last *)
(* environment overlay, in order and unmodified, followed by the entries   *)
(* derived from the container ports of the last port-wiring overlay,       *)
(* wherever the environment overlay sits in the list and also when an      *)
(* explicit entry has a derived name.                                      *)
C4_EnvIsExplicitThenDerived ==
    Returned
    => ret.process[1].Env =
         ExplicitEnv(opts) \o ExpectedPortEnv(name, WiredContainerPorts(opts, name))

\* The environment overlay with the entries PORT, PORT_web, port ran before
\* the port-wiring overlay that gave the single port of the descriptor.
C4_Witness ==
    /\ Returned /\ Len(opts) >= 2
    /\ opts[1].kind = "withEnvs" /\ Len(opts[1].envs) = 4
    /\ opts[2].kind = "withPortsAndProbes"
    /\ LastOf(opts, "withEnvs") = 1 /\ LastOf(opts, "withPortsAndProbes") = 2
    /\ Len(ret.process[1].ContainerPorts) = 1
    /\ Len(ret.process[1].Env) = 7

(* C5: newProcess calls the overlays in list order and stops at the first  *)
(* that fails: the overlays before it ran once each, none after it ran,    *)
(* neither the port derivation nor the port check ran, and newProcess      *)
(* returns that overlay's error and no descriptor.                         *)
C5_StopsAtFirstFailure ==
    /\ ran = Prefix(Len(ran))
    /\ pc = "done"
       => LET f == FirstFailure(opts, name)
          IN  IF f # 0
              THEN /\ ran = Prefix(f)
                   /\ derived = << >>
                   /\ portChecks = 0
                   /\ ret = [process |-> << >>, err |-> OverlayError(opts[f], name)]
              ELSE /\ ran = Prefix(Len(opts))
                   /\ Len(derived) = 1

\* The second of three overlays failed after the first had run.
C5_Witness ==
    /\ pc = "done" /\ Len(opts) = 3 /\ FirstFailure(opts, name) = 2
    /\ ran = <<1, 2>> /\ ret.err # Nil /\ process # newProcessValue(name, isRoutable)

MetadataKeys == ValidKeys \cup {"bad key"}

Targets == {"Deployment", "Service", "Pod"}

InvalidItemErrors == {ErrEmptyApply, ErrInvalidKey}

\* The label map (for withLabels) or annotation map (for withAnnotations) of
\* the bucket of process p that the target selects.
MapOf(p, target, kind) ==
    LET bucket == IF target = "Deployment" THEN p.DeploymentMetadata
                  ELSE IF target = "Service" THEN p.ServiceMetadata
                  ELSE p.PodMetadata
    IN  IF kind = "withLabels" THEN bucket.Labels ELSE bucket.Annotations

(* C6, as claimed: a label or annotation overlay list that contains an     *)
(* item failing validation makes the build abort (no descriptor, an error) *)
(* for every process name and deployment version.                          *)
C6_InvalidItemAlwaysAborts ==
    ( /\ pc = "done"
      /\ \E i \in 1..Len(opts) :
            /\ IsMetadataOverlay(opts[i])
            /\ \E j \in 1..Len(opts[i].items) : Validate(opts[i].items[j]) # Nil )
    => (ret.process = << >> /\ ret.err # Nil)

(* C6, amended: an invalid item aborts the build only when it applies to   *)
(* the process name and deployment version of the build: if no earlier     *)
(* overlay fails, newProcess returns the validation failure of the first   *)
(* applicable invalid item and no descriptor; an invalid item that does    *)
(* not apply is skipped without being validated, so a validation failure   *)
(* is returned only when some applicable item is invalid.                  *)
C6_ApplicableInvalidItemAborts ==
    pc = "done"
    => /\ \A i \in 1..Len(opts) :
            ( /\ IsMetadataOverlay(opts[i])
              /\ ApplicableInvalid(opts[i], name) # {}
              /\ \A h \in 1..(i - 1) : ~OverlayFails(opts[h], name) )
            => ret = [process |-> << >>,
                      err |-> Validate(opts[i].items[Min(ApplicableInvalid(opts[i], name))])]
       /\ ret.err \in InvalidItemErrors
          => \E i \in 1..Len(opts) :
                IsMetadataOverlay(opts[i]) /\ ApplicableInvalid(opts[i], name) # {}
       /\ ( /\ ~isRoutable
            /\ \A i \in 1..Len(opts) : ~OverlayFails(opts[i], name) )
          => ret.process # << >>

\* The second overlay held an applicable item with a malformed key and the
\* build returned its validation failure.
C6_Witness ==
    /\ pc = "done" /\ ran = <<1, 2>> /\ IsMetadataOverlay(opts[2])
    /\ ApplicableInvalid(opts[2], name) = {4}
    /\ ret = [process |-> << >>, err |-> ErrInvalidKey]

\* A metadata overlay is about to run.
MetadataCall == pc = "loop" /\ idx <= Len(opts) /\ IsMetadataOverlay(opts[idx])

Writers(os, n, kind, target, k) ==
    { w \in (1..Len(os)) \X (1..5) :
        /\ os[w[1]].kind = kind
        /\ w[2] <= Len(os[w[1]].items)
        /\ Applies(os[w[1]].items[w[2]], n, os[w[1]].deploymentVersion)
        /\ os[w[1]].items[w[2]].Target = target
        /\ k \in DOMAIN os[w[1]].items[w[2]].Apply }

\* The last writer, in overlay order and then in list order.
LastWriter(W) ==
    CHOOSE w \in W : \A v \in W : v[1] < w[1] \/ (v[1] = w[1] /\ v[2] <= w[2])

(* C8: merging is last-write-wins: in a returned descriptor the value of   *)
(* key k in a bucket's label (annotation) map is the value of the last     *)
(* applicable item, in overlay order and then in list order, that targets  *)
(* the bucket and contains k; a key no such item contains is absent.       *)
C8_LastWriteWins ==
    Returned
    => \A kind \in {"withLabels", "withAnnotations"} : \A t \in Targets : \A k \in MetadataKeys :
          LET W == Writers(opts, name, kind, t, k)
              m == MapOf(ret.process[1], t, kind)
          IN  IF W = {} THEN k \notin DOMAIN m
              ELSE /\ k \in DOMAIN m
                   /\ m[k] = opts[LastWriter(W)[1]].items[LastWriter(W)[2]].Apply[k]

\* Labels from ItemsTier, then from ItemsScoped: tier=b from the second of
\* the two tier items of the first list, team=y from the later overlay.
C8_Witness ==
    /\ Returned /\ Len(opts) >= 2
    /\ opts[1].kind = "withLabels" /\ opts[1].items = ItemsTier
    /\ opts[2].kind = "withLabels" /\ opts[2].items = ItemsScoped
    /\ ret.process[1].DeploymentMetadata.Labels = ("tier" :> "b") @@ ("team" :> "y")

\* A port-wiring overlay is about to run.
PortsCall == pc = "loop" /\ idx <= Len(opts) /\ opts[idx].kind = "withPortsAndProbes"

(* C9: withPortsAndProbes always assigns the Port Source's service and     *)
(* container ports for the descriptor's name; it asks for probes iff both  *)
(* lists are non-empty; on success it sets the three probes from the       *)
(* bundle and publicServicePort to the first service port; a probe failure *)
(* is returned unchanged; if either list is empty it succeeds without      *)
(* asking for probes and leaves the probes and publicServicePort alone.    *)
C9_PortsAndProbesWiring ==
    [][ PortsCall
        => LET c == opts[idx].c
               sp == c.ServicePorts[name]
               cp == c.ContainerPorts[name]
               both == sp # << >> /\ cp # << >>
           IN  /\ process'.ServicePorts = sp
               /\ process'.ContainerPorts = cp
               /\ probeCalls' = IF both THEN probeCalls + 1 ELSE probeCalls
               /\ (both /\ c.Probes.err = Nil)
                  => /\ pc' = "loop" /\ idx' = idx + 1 /\ ret' = ret
                     /\ process'.ReadinessProbe = c.Probes.probes.Readiness
                     /\ process'.LivenessProbe = c.Probes.probes.Liveness
                     /\ process'.StartupProbe = c.Probes.probes.StartupProbe
                     /\ process'.PublicServicePort = sp[1]
               /\ (both /\ c.Probes.err # Nil)
                  => /\ pc' = "done"
                     /\ ret' = [process |-> << >>, err |-> c.Probes.err]
               /\ ~both
                  => /\ pc' = "loop" /\ idx' = idx + 1 /\ ret' = ret
                     /\ process'.ReadinessProbe = process.ReadinessProbe
                     /\ process'.LivenessProbe = process.LivenessProbe
                     /\ process'.StartupProbe = process.StartupProbe
                     /\ process'.PublicServicePort = process.PublicServicePort
               /\ \A f \in {"Name", "Cmd", "Units", "Routable", "Env", "ServiceMetadata",
                            "DeploymentMetadata", "PodMetadata"} : process'[f] = process[f]
      ]_vars

\* A second port-wiring overlay found no container port: it assigned the
\* lists and left the probes and the public port of the first one.
C9_Witness ==
    /\ pc = "loop" /\ ran = <<1, 2>> /\ probeCalls = 1
    /\ opts[1].kind = "withPortsAndProbes" /\ opts[2].kind = "withPortsAndProbes"
    /\ process.ContainerPorts = << >> /\ process.ServicePorts = <<80>>
    /\ process.ReadinessProbe = "readyA" /\ process.PublicServicePort = 443

\* Some probe is set or the public port is non-zero.
Wired(p) ==
    \/ p.ReadinessProbe # Nil
    \/ p.LivenessProbe # Nil
    \/ p.StartupProbe # Nil
    \/ p.PublicServicePort # 0

PortsConsistent(p) ==
    /\ Len(p.ContainerPorts) > 0
    /\ Len(p.ServicePorts) > 0
    /\ p.PublicServicePort = p.ServicePorts[1]

(* C10, as claimed: in every returned descriptor, after any sequence of    *)
(* overlays, a set probe or a non-zero publicServicePort implies that both *)
(* port lists are non-empty and publicServicePort is the first service     *)
(* port.                                                                   *)
C10_ProbesImplyPorts ==
    (Returned /\ Wired(ret.process[1])) => PortsConsistent(ret.process[1])

(* C10, amended: the implication holds for every descriptor returned with  *)
(* routable=true and for every descriptor built with at most one           *)
(* port-wiring overlay.                                                    *)
C10_ProbesImplyPortsWhenRoutableOrWiredOnce ==
    ( /\ Returned
      /\ Wired(ret.process[1])
      /\ \/ isRoutable
         \/ Cardinality({ i \in 1..Len(opts) : opts[i].kind = "withPortsAndProbes" }) <= 1 )
    => PortsConsistent(ret.process[1])

\* A routable descriptor returned after two port-wiring overlays, with the
\* probes and the public port of the second.
C10_Witness ==
    /\ Returned /\ isRoutable /\ Len(opts) >= 2
    /\ opts[1].kind = "withPortsAndProbes" /\ opts[2].kind = "withPortsAndProbes"
    /\ opts[1].c # opts[2].c
    /\ ret.process[1].LivenessProbe = "liveA"
    /\ ret.process[1].PublicServicePort = 443

====
